---- MODULE Spec2Model ----
(***************************************************************************)
(* CachedIndex of rustsec (src/rustsec/src/cached_index.rs): an in-memory  *)
(* cache of per-crate yank information in front of a crates.io index that  *)
(* is opened as a git index, a locally cached sparse index or a remote     *)
(* sparse index.                                                           *)
(*                                                                         *)
(* find_yanked is modelled step by step: the entry (deduplication), one    *)
(* step per iteration of the populate_cache loop (or one step for the      *)
(* blocking batch request of the remote sparse index), one step per        *)
(* iteration of the is_yanked loop, and the return.  Nothing else can run  *)
(* between these steps (the method takes &mut self), so Next enables only  *)
(* the next step of a call in progress.                                    *)
(***************************************************************************)
EXTENDS Naturals, Integers, Sequences, FiniteSets, TLC

\* ------------------------------------------------------------- bounds
\* longest input of find_yanked
MaxPackages == 2
\* longest lock timeout, in units of time
MaxTimeout == 3
\* longest input of find_yanked in the life of a CachedIndex from its
\* opening on
MaxLifePackages == 1

\* crate names and version strings, numbered in the order of the strings
\* they stand for
Names == {1, 2}
Versions == {1, 2}

\* a crate's index metadata lists at most as many entries as there are
\* versions (an entry may repeat a version)
MaxEntries == Cardinality(Versions)

VARIABLES
    index,          \* CachedIndex.index: which Index variant was opened
    cache,          \* CachedIndex.cache: crate name -> cached lookup result
    pc,             \* position inside find_yanked ("idle" between calls)
    packages,       \* find_yanked: the input of the call in progress
    package_names,  \* populate_cache: names still to be looked up
    dedup_packages, \* find_yanked: packages still to be resolved
    yanked,         \* find_yanked: the result vector
    origin,         \* history: for each entry of yanked, what produced it
    queries,        \* history: backend requests made by the call in progress
    answered,       \* history: names the backend has given an answer for
    stable,         \* history: no cache entry changed in the call in progress
    previous,       \* history: the call that returned last
    fallback,       \* history: the names is_yanked looked up, and whether
                    \*   the entry it stored for the name is still there
    lock,           \* the filesystem lock of the local repository: its holder
    opc,            \* position inside open / fetch
    op,             \* which of open and fetch is running
    lock_timeout,   \* open / fetch: the lock_timeout argument
    lock_policy,    \* new_remote_git_index: the lock policy chosen
    elapsed,        \* time spent waiting for the lock so far
    last_attempt,   \* history: when the lock was last tried and how it was found
    freed,          \* history: the lock was released by its holder during a wait
    result,         \* what open / fetch returned
    cleanup,        \* the build releases locks when the process is interrupted
    refreshes       \* history: how often rgi.fetch() has been called

prog == <<index, cache, pc, packages, package_names, dedup_packages, yanked,
          origin, queries, answered>>

opening == <<lock, opc, op, lock_timeout, lock_policy, elapsed, last_attempt,
             freed, result, cleanup, refreshes>>

vars == <<prog, stable, previous, fallback, opening>>

\* ------------------------------------------------------------- data
\* Package, with its total order (name, then version)
Package == [name : Names, version : Versions]

PackageLt(p, q) ==
    \/ p.name < q.name
    \/ p.name = q.name /\ p.version < q.version

\* all sequences over S of length at most n
SeqsUpTo(S, n) == UNION {[1..k -> S] : k \in 0..n}

\* one version entry of a crate's index metadata
IndexVersion == [version : Versions, yanked : BOOLEAN]

\* what the registry can fail with on a single crate: the name is refused
\* (line 24) or the backend fails (line 30)
Causes == {"InvalidKrateName", "Io"}

\* Result<Option<IndexKrate>, Error> as returned by Index::krate and, per
\* item, by the batch request
KrateErr(c) == [tag |-> "Err", err |-> c]
KrateNone == [tag |-> "None"]
KrateSome(vs) == [tag |-> "Some", versions |-> vs]

KrateResults ==
    {KrateErr(c) : c \in Causes} \cup {KrateNone}
        \cup {KrateSome(vs) : vs \in SeqsUpTo(IndexVersion, MaxEntries)}

\* ------------------------------------------------------------- errors
\* Error values, as format_err!(kind, fmt, args...) builds them: the kind,
\* the format string and its arguments
NoSuchVersion(p) ==
    [kind |-> "NotFound", fmt |-> "No such version in crates.io index: {} {}",
     name |-> p.name, version |-> p.version]

NoSuchCrate(p) ==
    [kind |-> "NotFound", fmt |-> "No such crate in crates.io index: {}",
     name |-> p.name]

FailedToRetrieve(p, err) ==
    [kind |-> "Registry",
     fmt |-> "Failed to retrieve {} from crates.io index: {}",
     name |-> p.name, err |-> err]

\* the two ways populate_cache fails as a whole (remote sparse index only)
RuntimeStartError ==
    [kind |-> "Registry", fmt |-> "unable to start a tokio runtime: {}"]

RuntimeAcquireError ==
    [kind |-> "Registry", fmt |-> "unable to acquire tokio runtime: {}"]

\* the entry find_yanked pushes when populate_cache fails
FailedToDownload(e) ==
    [kind |-> "Registry",
     fmt |-> "Failed to download crates.io index: {}\nData may be missing or stale when checking for yanked packages.",
     cause |-> e]

\* ------------------------------------------------------------- collections
\* BTreeSet<&Package>: a strictly increasing sequence, in iteration order
RECURSIVE InsertPackage(_, _)
InsertPackage(s, p) ==
    IF s = <<>> THEN <<p>>
    ELSE IF Head(s) = p THEN s
    ELSE IF PackageLt(p, Head(s)) THEN <<p>> \o s
    ELSE <<Head(s)>> \o InsertPackage(Tail(s), p)

RECURSIVE CollectPackages(_, _)
CollectPackages(acc, ps) ==
    IF ps = <<>> THEN acc
    ELSE CollectPackages(InsertPackage(acc, Head(ps)), Tail(ps))

\* a Vec in place of the BTreeSet: sorted, duplicates kept
RECURSIVE InsertPackageKeepingDuplicates(_, _)
InsertPackageKeepingDuplicates(s, p) ==
    IF s = <<>> THEN <<p>>
    ELSE IF PackageLt(p, Head(s)) THEN <<p>> \o s
    ELSE <<Head(s)>> \o InsertPackageKeepingDuplicates(Tail(s), p)

RECURSIVE CollectKeepingDuplicates(_, _)
CollectKeepingDuplicates(acc, ps) ==
    IF ps = <<>> THEN acc
    ELSE CollectKeepingDuplicates(
             InsertPackageKeepingDuplicates(acc, Head(ps)), Tail(ps))

DedupKeepingDuplicates(ps) == CollectKeepingDuplicates(<<>>, ps)

\* let dedup_packages: BTreeSet<&Package> = packages.into_iter().collect();
DedupPackages(ps) == CollectPackages(<<>>, ps)

\* BTreeSet<&package::Name>
RECURSIVE InsertName(_, _)
InsertName(s, n) ==
    IF s = <<>> THEN <<n>>
    ELSE IF Head(s) = n THEN s
    ELSE IF n < Head(s) THEN <<n>> \o s
    ELSE <<Head(s)>> \o InsertName(Tail(s), n)

RECURSIVE CollectNames(_, _)
CollectNames(acc, ps) ==
    IF ps = <<>> THEN acc
    ELSE CollectNames(InsertName(acc, Head(ps).name), Tail(ps))

\* let package_names = dedup_packages.iter().map(|p| &p.name).collect();
PackageNames(dedup) == CollectNames(<<>>, dedup)

Range(s) == {s[i] : i \in DOMAIN s}

\* ------------------------------------------------------------- cache
\* cache entries: Result<Option<HashMap<String, bool>>, Error>
EntryErr(c) == [tag |-> "Err", err |-> c]
EntryNone == [tag |-> "None"]
EntrySome(m) == [tag |-> "Some", map |-> m]

LastIndexOf(vs, v) ==
    CHOOSE i \in DOMAIN vs :
        /\ vs[i].version = v
        /\ \A j \in DOMAIN vs : vs[j].version = v => j <= i

\* ik.versions.into_iter().map(|v| (v.version.to_string(), v.is_yanked()))
\*   .collect::<HashMap<_, _>>(): a later entry of a version replaces an
\* earlier one
VersionMap(vs) ==
    [v \in {vs[i].version : i \in DOMAIN vs} |-> vs[LastIndexOf(vs, v)].yanked]

\* krate_res.map(|ik| ik.map(...))
CacheEntry(res) ==
    CASE res.tag = "Err" -> EntryErr(res.err)
      [] res.tag = "None" -> EntryNone
      [] res.tag = "Some" -> EntrySome(VersionMap(res.versions))

\* an insert that leaves an existing entry alone
InsertIfAbsent(c, name, res) ==
    IF name \in DOMAIN c THEN c
    ELSE [n \in DOMAIN c \cup {name} |-> IF n = name THEN CacheEntry(res) ELSE c[n]]

\* an insert into a cache emptied first
InsertDroppingOthers(c, name, res) ==
    [n \in {name} |-> CacheEntry(res)]

\* CachedIndex::insert: self.cache.insert(package, krate_res)
Insert(c, name, res) ==
    [n \in DOMAIN c \cup {name} |-> IF n = name THEN CacheEntry(res) ELSE c[n]]

\* the for loop over the batch results (a BTreeMap, so in name order)
RECURSIVE InsertAll(_, _, _)
InsertAll(c, names, results) ==
    IF names = <<>> THEN c
    ELSE InsertAll(
             IF Head(names) \in DOMAIN results
                 THEN Insert(c, Head(names), results[Head(names)])
                 ELSE c,
             Tail(names), results)

\* ------------------------------------------------------------- is_yanked
IsYankedOk(b) == [tag |-> "Ok", value |-> b]
IsYankedErr(e) == [tag |-> "Err", error |-> e]

\* a match that takes a missing version for "not yanked"
MatchEntryDefaultingToFalse(entry, p) ==
    CASE entry.tag = "Some" ->
            IF p.version \in DOMAIN entry.map
                THEN IsYankedOk(entry.map[p.version])
                ELSE IsYankedOk(FALSE)
      [] entry.tag = "None" -> IsYankedErr(NoSuchCrate(p))
      [] entry.tag = "Err" -> IsYankedErr(FailedToRetrieve(p, entry.err))

\* the match of is_yanked on &self.cache[&package.name]
MatchEntry(entry, p) ==
    CASE entry.tag = "Some" ->
            IF p.version \in DOMAIN entry.map
                THEN IsYankedOk(entry.map[p.version])
                ELSE IsYankedErr(NoSuchVersion(p))
      [] entry.tag = "None" -> IsYankedErr(NoSuchCrate(p))
      [] entry.tag = "Err" -> IsYankedErr(FailedToRetrieve(p, entry.err))

\* ------------------------------------------------------------- find_yanked
YankedOk(p) == [tag |-> "Ok", package |-> p]
YankedErr(e) == [tag |-> "Err", error |-> e]

\* a match that reports every package that resolved, yanked or not
PushReportingAll(out, p, res) ==
    CASE res.tag = "Ok" -> Append(out, YankedOk(p))
      [] res.tag = "Err" -> Append(out, YankedErr(res.error))

\* a loop that stops reporting at the first error
PushUntilFirstError(out, p, res) ==
    IF \E i \in DOMAIN out : out[i].tag = "Err" THEN out
    ELSE CASE res.tag = "Ok" /\ ~res.value -> out
           [] res.tag = "Ok" /\ res.value -> Append(out, YankedOk(p))
           [] res.tag = "Err" -> Append(out, YankedErr(res.error))

\* a match that keeps the yanked packages only
PushDroppingErrors(out, p, res) ==
    CASE res.tag = "Ok" /\ res.value -> Append(out, YankedOk(p))
      [] OTHER -> out

\* the match of find_yanked on self.is_yanked(package)
Push(out, p, res) ==
    CASE res.tag = "Ok" /\ ~res.value -> out
      [] res.tag = "Ok" /\ res.value -> Append(out, YankedOk(p))
      [] res.tag = "Err" -> Append(out, YankedErr(res.error))

\* history: what produced the entry Push adds, if it adds one
FromPackage(p) == [from |-> "is_yanked", package |-> p]
FromPopulate == [from |-> "populate_cache"]

\* history: one backend request for a crate, and the cache entry made of
\* the answer to it (Unanswered: the batch had no result for the crate)
Unanswered == [tag |-> "Unanswered"]
Query(request, n, outcome) == [op |-> request, name |-> n, outcome |-> outcome]

\* ------------------------------------------------------------- opening
\* gix::lock::acquire::Fail
Immediately == [fail |-> "Immediately"]
AfterDurationWithBackoff(t) == [fail |-> "AfterDurationWithBackoff", time |-> t]

\* a policy that waits whatever the timeout
LockPolicyAlwaysWaiting(timeout) == AfterDurationWithBackoff(MaxTimeout)

\* a policy with the test of the timeout inverted
LockPolicyInverted(timeout) ==
    IF timeout # 0 THEN Immediately ELSE AfterDurationWithBackoff(timeout)

\* new_remote_git_index: let lock_policy = if lock_timeout == ... { ... }
LockPolicy(timeout) ==
    IF timeout = 0 THEN Immediately ELSE AfterDurationWithBackoff(timeout)

\* Result<CachedIndex, Error> of open / fetch
Ok(kind) == [tag |-> "Ok", index |-> kind]
Err(kind) == [tag |-> "Err", kind |-> kind]
NoResult == [tag |-> "None"]

\* tame_index::Error, as far as Error::from_tame tells its values apart: a
\* lock that could not be taken, and failures of git or of the file system
TameErrors == {"PermanentlyLocked", "Git", "Io"}

\* Error::from_tame: a lock that could not be taken is a LockTimeout, any
\* other failure of the index a Registry error
FromTame(e) == IF e = "PermanentlyLocked" THEN Err("LockTimeout") ELSE Err("Registry")

NoAttempt == [made |-> FALSE]
Attempt(at, found) == [made |-> TRUE, at |-> at, found |-> found]

\* ------------------------------------------------------------- actions
Kinds == {"Git", "SparseCached", "SparseRemote"}

EmptyCache == [n \in {} |-> EntryNone]

NoCall == [called |-> FALSE]

NoFallback == [n \in {} |-> TRUE]

\* the state after CachedIndex { index, cache: Default::default() }
Init ==
    /\ index \in Kinds
    /\ cache = EmptyCache
    /\ pc = "idle"
    /\ packages = <<>>
    /\ package_names = <<>>
    /\ dedup_packages = <<>>
    /\ yanked = <<>>
    /\ origin = <<>>
    /\ queries = <<>>
    /\ answered = {}
    /\ stable = TRUE
    /\ previous = NoCall
    /\ fallback = NoFallback
    /\ lock = IF index = "Git" THEN "self" ELSE "free"
    /\ opc = "returned"
    /\ op = "none"
    /\ lock_timeout = 0
    /\ lock_policy = Immediately
    /\ elapsed = 0
    /\ last_attempt = NoAttempt
    /\ freed = FALSE
    /\ result = Ok(index)
    /\ cleanup = TRUE
    /\ refreshes = 0

\* find_yanked, up to the call of populate_cache
FindYanked(ps) ==
    /\ pc = "idle"
    /\ packages' = ps
    /\ dedup_packages' = DedupPackages(ps)
    /\ package_names' = PackageNames(DedupPackages(ps))
    /\ yanked' = <<>>
    /\ origin' = <<>>
    /\ queries' = <<>>
    /\ pc' = "populate_cache"
    /\ UNCHANGED <<index, cache, answered>>

\* a loop that stores what was found and skips the lookups that failed
PopulateKrateSkippingErrors(res) ==
    /\ pc = "populate_cache"
    /\ index \in {"Git", "SparseCached"}
    /\ package_names # <<>>
    /\ cache' = IF res.tag = "Err" THEN cache
                ELSE Insert(cache, Head(package_names), res)
    /\ queries' = Append(queries, Query("krate", Head(package_names),
                                        CacheEntry(res)))
    /\ answered' = answered \cup {Head(package_names)}
    /\ package_names' = Tail(package_names)
    /\ UNCHANGED <<index, pc, packages, dedup_packages, yanked, origin>>

\* populate_cache on a git or cached sparse index: one iteration of
\*   for pkg in packages { self.insert(pkg.to_owned(), self.index.krate(pkg)) }
PopulateKrate(res) ==
    /\ pc = "populate_cache"
    /\ index \in {"Git", "SparseCached"}
    /\ package_names # <<>>
    /\ cache' = Insert(cache, Head(package_names), res)
    /\ queries' = Append(queries, Query("krate", Head(package_names),
                                        CacheEntry(res)))
    /\ answered' = answered \cup {Head(package_names)}
    /\ package_names' = Tail(package_names)
    /\ UNCHANGED <<index, pc, packages, dedup_packages, yanked, origin>>

\* populate_cache on a git or cached sparse index: the loop is over, Ok(())
PopulateDone ==
    /\ pc = "populate_cache"
    /\ index \in {"Git", "SparseCached"}
    /\ package_names = <<>>
    /\ pc' = "is_yanked"
    /\ UNCHANGED <<index, cache, packages, package_names, dedup_packages,
                   yanked, origin, queries, answered>>

\* a find_yanked that gives up when populate_cache fails
PopulateFailsAborting(e) ==
    /\ pc = "populate_cache"
    /\ index = "SparseRemote"
    /\ yanked' = Append(yanked, YankedErr(FailedToDownload(e)))
    /\ origin' = Append(origin, FromPopulate)
    /\ package_names' = <<>>
    /\ dedup_packages' = <<>>
    /\ pc' = "is_yanked"
    /\ UNCHANGED <<index, cache, packages, queries, answered>>

\* a populate_cache that empties the cache when it fails
PopulateFailsClearingCache(e) ==
    /\ pc = "populate_cache"
    /\ index = "SparseRemote"
    /\ yanked' = Append(yanked, YankedErr(FailedToDownload(e)))
    /\ origin' = Append(origin, FromPopulate)
    /\ package_names' = <<>>
    /\ cache' = EmptyCache
    /\ pc' = "is_yanked"
    /\ UNCHANGED <<index, packages, dedup_packages, queries, answered>>

\* populate_cache on a remote sparse index fails as a whole (Runtime::new()
\* or krates_blocking returns Err, taken by `?`), and find_yanked pushes the
\* error it makes of it
PopulateFails(e) ==
    /\ pc = "populate_cache"
    /\ index = "SparseRemote"
    /\ yanked' = Append(yanked, YankedErr(FailedToDownload(e)))
    /\ origin' = Append(origin, FromPopulate)
    /\ package_names' = <<>>
    /\ pc' = "is_yanked"
    /\ UNCHANGED <<index, cache, packages, dedup_packages, queries, answered>>

\* populate_cache on a remote sparse index: krates_blocking answers for the
\* names it has a result for, and every result is inserted
PopulateBatch(results) ==
    /\ pc = "populate_cache"
    /\ index = "SparseRemote"
    /\ DOMAIN results \subseteq Range(package_names)
    /\ cache' = InsertAll(cache, package_names, results)
    /\ queries' = queries \o [i \in DOMAIN package_names |->
                                 Query("krates_blocking", package_names[i],
                                       IF package_names[i] \in DOMAIN results
                                           THEN CacheEntry(results[package_names[i]])
                                           ELSE Unanswered)]
    /\ answered' = answered \cup DOMAIN results
    /\ package_names' = <<>>
    /\ pc' = "is_yanked"
    /\ UNCHANGED <<index, packages, dedup_packages, yanked, origin>>

\* one iteration of the loop of find_yanked over dedup_packages: is_yanked
\* on package p, the cache being `filled` once the name is looked up, and
\* the match on what is_yanked returns
IsYankedStep(p, filled) ==
    /\ cache' = filled
    /\ yanked' = Push(yanked, p, MatchEntry(filled[p.name], p))
    /\ origin' = IF Len(yanked') > Len(yanked)
                     THEN Append(origin, FromPackage(p)) ELSE origin
    /\ dedup_packages' = Tail(dedup_packages)
    /\ UNCHANGED <<index, pc, packages, package_names>>

\* ... the name has a cache entry
IsYankedCached ==
    /\ pc = "is_yanked"
    /\ dedup_packages # <<>>
    /\ Head(dedup_packages).name \in DOMAIN cache
    /\ UNCHANGED <<queries, answered>>
    /\ IsYankedStep(Head(dedup_packages), cache)

\* ... the name has none: self.index.krate(&package.name) answers res
IsYankedMiss(res) ==
    /\ pc = "is_yanked"
    /\ dedup_packages # <<>>
    /\ Head(dedup_packages).name \notin DOMAIN cache
    /\ queries' = Append(queries, Query("krate", Head(dedup_packages).name,
                                        CacheEntry(res)))
    /\ answered' = answered \cup {Head(dedup_packages).name}
    /\ IsYankedStep(Head(dedup_packages),
                    Insert(cache, Head(dedup_packages).name, res))

\* find_yanked is about to return yanked
Returning == pc = "is_yanked" /\ dedup_packages = <<>>

\* a return that throws the cache away
ReturnClearingCache ==
    /\ Returning
    /\ pc' = "idle"
    /\ packages' = <<>>
    /\ yanked' = <<>>
    /\ origin' = <<>>
    /\ queries' = <<>>
    /\ cache' = EmptyCache
    /\ UNCHANGED <<index, package_names, dedup_packages, answered>>

\* find_yanked returns: the result goes to the caller, the locals are gone
Return ==
    /\ Returning
    /\ pc' = "idle"
    /\ packages' = <<>>
    /\ yanked' = <<>>
    /\ origin' = <<>>
    /\ queries' = <<>>
    /\ UNCHANGED <<index, cache, package_names, dedup_packages, answered>>

BatchResults == UNION {[D -> KrateResults] : D \in SUBSET Names}

Inputs == SeqsUpTo(Package, MaxPackages)

\* populate_cache failed in the call in progress
PopulateFailed == origin # <<>> /\ origin[1] = FromPopulate

\* what populate_cache returned to the call in progress: the error, if any
PopulateError == IF PopulateFailed THEN <<yanked[1]>> ELSE <<>>

\* no history of earlier calls is kept
NoHistory == UNCHANGED <<stable, previous, fallback, opening>>

Next ==
    \/ \E ps \in Inputs : FindYanked(ps) /\ NoHistory
    \/ \E res \in KrateResults : PopulateKrate(res) /\ NoHistory
    \/ PopulateDone /\ NoHistory
    \/ \E e \in {RuntimeStartError, RuntimeAcquireError} :
           PopulateFails(e) /\ NoHistory
    \/ \E results \in BatchResults : PopulateBatch(results) /\ NoHistory
    \/ IsYankedCached /\ NoHistory
    \/ \E res \in KrateResults : IsYankedMiss(res) /\ NoHistory
    \/ Return /\ NoHistory

Spec == Init /\ [][Next]_vars

\* Repeated calls of find_yanked with one package set, with the history of
\* the calls kept: what the last call was given and returned, and whether
\* the call in progress has changed a cache entry (it has not if the
\* backend answers every request as it answered it before).
History ==
    /\ stable' = IF pc = "idle" THEN TRUE ELSE stable /\ cache' = cache
    /\ previous' = IF Returning
                       THEN [called |-> TRUE,
                             packages |-> Range(packages),
                             yanked |-> yanked,
                             populate |-> PopulateError]
                       ELSE previous
    /\ UNCHANGED <<fallback, opening>>

SamePackages(ps) == previous.called => Range(ps) = previous.packages

RepeatNext ==
    \/ \E ps \in Inputs : SamePackages(ps) /\ FindYanked(ps) /\ History
    \/ \E res \in KrateResults : PopulateKrate(res) /\ History
    \/ PopulateDone /\ History
    \/ \E e \in {RuntimeStartError, RuntimeAcquireError} :
           PopulateFails(e) /\ History
    \/ \E results \in BatchResults : PopulateBatch(results) /\ History
    \/ IsYankedCached /\ History
    \/ \E res \in KrateResults : IsYankedMiss(res) /\ History
    \/ Return /\ History

RepeatSpec == Init /\ [][RepeatNext]_vars

\* find_yanked calls with the history of the lookups of is_yanked kept:
\* which names is_yanked has looked up itself, and for each whether the
\* cache still holds the entry that lookup stored (a later insert of
\* another entry for the name ends that)
IsFallback == pc = "is_yanked" /\ Len(queries') > Len(queries)

Fallbacks ==
    /\ fallback' =
           IF IsFallback
               THEN [n \in DOMAIN fallback \cup {Head(dedup_packages).name} |->
                        IF n = Head(dedup_packages).name
                            THEN TRUE ELSE fallback[n]]
               ELSE [n \in DOMAIN fallback |->
                        fallback[n] /\ cache'[n] = cache[n]]
    /\ UNCHANGED <<stable, previous, opening>>

FallbackNext ==
    \/ \E ps \in Inputs : FindYanked(ps) /\ Fallbacks
    \/ \E res \in KrateResults : PopulateKrate(res) /\ Fallbacks
    \/ PopulateDone /\ Fallbacks
    \/ \E e \in {RuntimeStartError, RuntimeAcquireError} :
           PopulateFails(e) /\ Fallbacks
    \/ \E results \in BatchResults : PopulateBatch(results) /\ Fallbacks
    \/ IsYankedCached /\ Fallbacks
    \/ \E res \in KrateResults : IsYankedMiss(res) /\ Fallbacks
    \/ Return /\ Fallbacks

FallbackSpec == Init /\ [][FallbackNext]_vars

\* ------------------------------------------------------------- properties
\* the entries of yanked that package p produced
EntriesOf(p) == {i \in DOMAIN origin : origin[i] = FromPackage(p)}

\* how the cache answers for package p
Cached(p) == p.name \in DOMAIN cache
CrateKnown(p) == Cached(p) /\ cache[p.name].tag = "Some"
VersionKnown(p) == CrateKnown(p) /\ p.version \in DOMAIN cache[p.name].map
FoundNotYanked(p) == VersionKnown(p) /\ ~cache[p.name].map[p.version]
FoundYanked(p) == VersionKnown(p) /\ cache[p.name].map[p.version]
VersionNotFound(p) == CrateKnown(p) /\ ~VersionKnown(p)
CrateNotFound(p) == Cached(p) /\ cache[p.name].tag = "None"
LookupFailed(p) == Cached(p) /\ cache[p.name].tag = "Err"
Failing(p) == VersionNotFound(p) \/ CrateNotFound(p) \/ LookupFailed(p)

\* the distinct packages of the input
Distinct == Range(packages)

\* C1: if the backend answers as before, a second find_yanked call with
\* the same package set returns the result of the first and makes no
\* backend request for a name that had a cache entry after the first.
C1_RepeatedCallRefetchesNothing ==
    (/\ Returning
     /\ previous.called
     /\ Range(packages) = previous.packages
     /\ PopulateError = previous.populate
     /\ stable)
        => /\ yanked = previous.yanked
           /\ \A i \in DOMAIN queries : queries[i].name \notin DOMAIN cache

\* C2: over all find_yanked calls the backend is asked for a crate name at
\* most once: no request names a crate the backend has answered for before
\* (its answer is in the cache).
C2_EachNameAskedAtMostOnce ==
    [][\A i \in DOMAIN queries' :
           i > Len(queries) => queries'[i].name \notin answered]_vars

\* C3: however often a package is repeated in the input, at most one entry
\* of the output comes from it.
C3_AtMostOneEntryPerPackage ==
    \A p \in Package : Cardinality(EntriesOf(p)) <= 1

C3_Witness ==
    /\ Returning
    /\ Len(packages) = 2
    /\ packages[1] = packages[2]
    /\ Cardinality(EntriesOf(packages[1])) = 1

\* C4: when find_yanked returns, for input packages a and b of different
\* crates where the lookup of a's crate failed and that of b's succeeded,
\* the output holds a Registry error for a and b's own outcome (Ok if
\* yanked, nothing if not yanked, NotFound if the version is missing),
\* whichever of the two comes first.
C4_FailureIsIsolated ==
    Returning =>
        \A a \in Distinct, b \in Distinct :
            (a.name # b.name /\ LookupFailed(a) /\ CrateKnown(b)) =>
                /\ \E i \in EntriesOf(a) :
                       /\ yanked[i].tag = "Err"
                       /\ yanked[i].error.kind = "Registry"
                /\ FoundYanked(b) =>
                       \E i \in EntriesOf(b) : yanked[i] = YankedOk(b)
                /\ FoundNotYanked(b) => EntriesOf(b) = {}
                /\ VersionNotFound(b) =>
                       \E i \in EntriesOf(b) :
                           /\ yanked[i].tag = "Err"
                           /\ yanked[i].error.kind = "NotFound"

C4_Witness ==
    /\ Returning
    /\ \E a \in Distinct, b \in Distinct :
           /\ a.name < b.name
           /\ LookupFailed(a)
           /\ FoundYanked(b)
           /\ \E i \in EntriesOf(b) : yanked[i] = YankedOk(b)
           /\ \E i \in EntriesOf(a) : yanked[i].error.kind = "Registry"

\* C5: when find_yanked returns, the output holds no entry for an input
\* package whose crate and version were found with yanked = false.
C5_NotYankedIsOmitted ==
    Returning =>
        \A p \in Distinct :
            FoundNotYanked(p) =>
                /\ EntriesOf(p) = {}
                /\ YankedOk(p) \notin Range(yanked)

C5_Witness ==
    /\ Returning
    /\ \E p \in Distinct, q \in Distinct :
           /\ FoundNotYanked(p)
           /\ FoundYanked(q)
           /\ yanked = <<YankedOk(q)>>

\* C6: when populate_cache succeeded and find_yanked returns, the output
\* holds exactly one Ok entry for each distinct yanked input package,
\* exactly one Err entry for each distinct failing one, and nothing else.
C6_OneEntryPerYankedOrFailing ==
    (Returning /\ ~PopulateFailed) =>
        /\ \A p \in Distinct :
               /\ FoundYanked(p) =>
                      /\ Cardinality(EntriesOf(p)) = 1
                      /\ \A i \in EntriesOf(p) : yanked[i] = YankedOk(p)
               /\ Failing(p) =>
                      /\ Cardinality(EntriesOf(p)) = 1
                      /\ \A i \in EntriesOf(p) : yanked[i].tag = "Err"
        /\ \A i \in DOMAIN yanked :
               \E p \in Distinct :
                   i \in EntriesOf(p) /\ (FoundYanked(p) \/ Failing(p))
        /\ Len(yanked) =
               Cardinality({p \in Distinct : FoundYanked(p)})
                   + Cardinality({p \in Distinct : Failing(p)})

C6_Witness ==
    /\ Returning
    /\ ~PopulateFailed
    /\ Len(packages) = 2
    /\ FoundYanked(packages[1])
    /\ Failing(packages[2])
    /\ Len(yanked) = 2

\* C7: each step of the is_yanked loop treats its package as the cache
\* entry of its name dictates: version mapped to false, nothing; mapped to
\* true, Ok of the package; version missing, a NotFound error "no such
\* version"; crate missing, a NotFound error "no such crate"; a stored
\* error, a Registry error that carries it.
C7_OutcomeFixedByEntry ==
    [][(pc = "is_yanked" /\ dedup_packages # <<>>) =>
          LET p == Head(dedup_packages)
              e == cache'[p.name]
          IN CASE e.tag = "Some" /\ p.version \in DOMAIN e.map ->
                      IF e.map[p.version]
                          THEN yanked' = yanked \o <<[tag |-> "Ok", package |-> p]>>
                          ELSE yanked' = yanked
               [] e.tag = "Some" /\ p.version \notin DOMAIN e.map ->
                      /\ Len(yanked') = Len(yanked) + 1
                      /\ yanked'[Len(yanked')].tag = "Err"
                      /\ yanked'[Len(yanked')].error.kind = "NotFound"
                      /\ yanked'[Len(yanked')].error.fmt =
                             "No such version in crates.io index: {} {}"
                      /\ yanked'[Len(yanked')].error.name = p.name
                      /\ yanked'[Len(yanked')].error.version = p.version
               [] e.tag = "None" ->
                      /\ Len(yanked') = Len(yanked) + 1
                      /\ yanked'[Len(yanked')].tag = "Err"
                      /\ yanked'[Len(yanked')].error.kind = "NotFound"
                      /\ yanked'[Len(yanked')].error.fmt =
                             "No such crate in crates.io index: {}"
                      /\ yanked'[Len(yanked')].error.name = p.name
               [] e.tag = "Err" ->
                      /\ Len(yanked') = Len(yanked) + 1
                      /\ yanked'[Len(yanked')].tag = "Err"
                      /\ yanked'[Len(yanked')].error.kind = "Registry"
                      /\ yanked'[Len(yanked')].error.name = p.name
                      /\ yanked'[Len(yanked')].error.err = e.err]_vars

C7_Witness ==
    /\ Returning
    /\ \E p \in Distinct :
           /\ VersionNotFound(p)
           /\ \E i \in EntriesOf(p) : yanked[i] = YankedErr(NoSuchVersion(p))

\* C8: when populate_cache failed and find_yanked returns, the output
\* starts with the one Registry error made of the failure, and goes on
\* with the outcome of every distinct input package, each resolved.
C8_PopulateFailureIsReported ==
    (Returning /\ PopulateFailed) =>
        /\ yanked[1].tag = "Err"
        /\ yanked[1].error.kind = "Registry"
        /\ yanked[1].error.fmt =
               "Failed to download crates.io index: {}\nData may be missing or stale when checking for yanked packages."
        /\ Cardinality({i \in DOMAIN origin : origin[i] = FromPopulate}) = 1
        /\ \A p \in Distinct :
               /\ Cached(p)
               /\ Cardinality(EntriesOf(p)) = IF FoundNotYanked(p) THEN 0 ELSE 1
               /\ \A i \in EntriesOf(p) :
                      /\ i > 1
                      /\ FoundYanked(p) => yanked[i] = YankedOk(p)
                      /\ Failing(p) => yanked[i].tag = "Err"
        /\ Len(yanked) =
               1 + Cardinality({p \in Distinct : ~FoundNotYanked(p)})

C8_Witness ==
    /\ Returning
    /\ PopulateFailed
    /\ Len(yanked) = 3
    /\ \E p \in Distinct : FoundYanked(p) /\ yanked[2] = YankedOk(p)
    /\ \E p \in Distinct : Failing(p) /\ EntriesOf(p) = {3}

\* C14: when populate_cache fails as a whole it leaves the cache exactly as
\* it was before the call, and the is_yanked steps that follow answer the
\* names cached by earlier calls from their entries, asking nothing.
C14_FailedPopulateKeepsCache ==
    /\ [][(pc = "populate_cache" /\ PopulateFailed') => cache' = cache]_vars
    /\ [][(/\ pc = "is_yanked" /\ PopulateFailed /\ dedup_packages # <<>>
            /\ Head(dedup_packages).name \in DOMAIN cache) =>
               (cache' = cache /\ queries' = queries)]_vars

C14_Witness ==
    /\ Returning
    /\ PopulateFailed
    /\ queries = <<>>
    /\ Len(yanked) = 2
    /\ \E p \in Distinct : FoundYanked(p) /\ yanked[2] = YankedOk(p)

\* the names of the input
NamesOf(ps) == {ps[i].name : i \in DOMAIN ps}

\* C15: on a git or cached sparse index populate_cache never fails, whatever
\* the lookups return: once it is over the backend was asked once for each
\* name of the input and the cache holds, for each, the entry made of the
\* answer to its own request (map, not found or error).  populate_cache
\* fails as a whole on a remote sparse index only.
C15_LocalPopulateAlwaysSucceeds ==
    /\ PopulateFailed => index = "SparseRemote"
    /\ (pc = "is_yanked" /\ index \in {"Git", "SparseCached"}) =>
           /\ ~PopulateFailed
           /\ Len(queries) = Cardinality(NamesOf(packages))
           /\ \A n \in NamesOf(packages) :
                  /\ n \in DOMAIN cache
                  /\ \E i \in DOMAIN queries :
                         queries[i] = Query("krate", n, cache[n])

C15_Witness ==
    /\ pc = "is_yanked"
    /\ index = "SparseCached"
    /\ \E a \in Distinct, b \in Distinct :
           /\ a.name < b.name
           /\ LookupFailed(a)
           /\ CrateKnown(b)
           /\ queries = <<Query("krate", a.name, cache[a.name]),
                          Query("krate", b.name, cache[b.name])>>

\* ------------------------------------------------------------- open, fetch
\* before open or fetch is called; another process may hold the lock
OpenInit ==
    /\ index = "None"
    /\ cache = EmptyCache
    /\ pc = "idle"
    /\ packages = <<>>
    /\ package_names = <<>>
    /\ dedup_packages = <<>>
    /\ yanked = <<>>
    /\ origin = <<>>
    /\ queries = <<>>
    /\ answered = {}
    /\ stable = TRUE
    /\ previous = NoCall
    /\ fallback = NoFallback
    /\ lock \in {"free", "other"}
    /\ opc = "start"
    /\ op = "none"
    /\ lock_timeout = 0
    /\ lock_policy = Immediately
    /\ elapsed = 0
    /\ last_attempt = NoAttempt
    /\ freed = FALSE
    /\ result = NoResult
    /\ cleanup \in BOOLEAN
    /\ refreshes = 0

Closed == UNCHANGED <<prog, stable, previous, fallback, cleanup>>

\* open(lock_timeout) or fetch(client, lock_timeout) is called
Call(o, timeout) ==
    /\ opc = "start"
    /\ op' = o
    /\ lock_timeout' = timeout
    /\ opc' = "combo"
    /\ UNCHANGED <<lock, lock_policy, elapsed, last_attempt, freed, result>>
    /\ Closed
    /\ UNCHANGED refreshes

\* ComboIndexCache::new(...) fails: `?`, then map_err(Error::from_tame)
ComboFails ==
    /\ opc = "combo"
    /\ result' = FromTame("Io")
    /\ opc' = "returned"
    /\ UNCHANGED <<lock, op, lock_timeout, lock_policy, elapsed, last_attempt,
                   freed>>
    /\ Closed
    /\ UNCHANGED refreshes

\* ComboIndexCache::Git(gi): new_remote_git_index chooses the lock policy
ComboGit ==
    /\ opc = "combo"
    /\ lock_policy' = LockPolicy(lock_timeout)
    /\ opc' = "lock"
    /\ UNCHANGED <<lock, op, lock_timeout, elapsed, last_attempt, freed,
                   result>>
    /\ Closed
    /\ UNCHANGED refreshes

\* an opening that makes a remote sparse index whichever operation it is
ComboSparseAlwaysRemote(built) ==
    /\ opc = "combo"
    /\ result' = IF built THEN Ok("SparseRemote") ELSE FromTame("Reqwest")
    /\ index' = IF result'.tag = "Ok" THEN result'.index ELSE index
    /\ opc' = "returned"
    /\ UNCHANGED <<lock, op, lock_timeout, lock_policy, elapsed, last_attempt,
                   freed>>
    /\ UNCHANGED <<cache, pc, packages, package_names, dedup_packages, yanked,
                   origin, queries, answered, stable, previous, fallback,
                   cleanup>>
    /\ UNCHANGED refreshes

\* ComboIndexCache::Sparse(si): open keeps the cached sparse index, fetch
\* builds the client (which may fail) of a remote sparse index
ComboSparse(built) ==
    /\ opc = "combo"
    /\ result' = IF op = "open" THEN Ok("SparseCached")
                 ELSE IF built THEN Ok("SparseRemote") ELSE FromTame("Reqwest")
    /\ index' = IF result'.tag = "Ok" THEN result'.index ELSE index
    /\ opc' = "returned"
    /\ UNCHANGED <<lock, op, lock_timeout, lock_policy, elapsed, last_attempt,
                   freed>>
    /\ UNCHANGED <<cache, pc, packages, package_names, dedup_packages, yanked,
                   origin, queries, answered, stable, previous, fallback,
                   cleanup>>
    /\ UNCHANGED refreshes

\* any other ComboIndexCache: panic!("Unsupported crates.io index type")
ComboOther ==
    /\ opc = "combo"
    /\ opc' = "panicked"
    /\ UNCHANGED <<lock, op, lock_timeout, lock_policy, elapsed, last_attempt,
                   freed, result>>
    /\ Closed
    /\ UNCHANGED refreshes

\* RemoteGitIndex::with_options tries the lock and finds it free: the index
\* is opened with the lock held (fetch goes on to rgi.fetch())
LockTaken ==
    /\ opc = "lock"
    /\ lock = "free"
    /\ lock' = "self"
    /\ last_attempt' = Attempt(elapsed, "free")
    /\ opc' = IF op = "fetch" THEN "fetch" ELSE "returned"
    /\ result' = IF op = "fetch" THEN result ELSE Ok("Git")
    /\ index' = IF op = "fetch" THEN index ELSE "Git"
    /\ UNCHANGED <<op, lock_timeout, lock_policy, elapsed, freed>>
    /\ UNCHANGED <<cache, pc, packages, package_names, dedup_packages, yanked,
                   origin, queries, answered, stable, previous, fallback,
                   cleanup>>
    /\ UNCHANGED refreshes

\* ... finds it held by another process: it waits if the policy leaves
\* time to, and fails if not
LockHeld ==
    /\ opc = "lock"
    /\ lock = "other"
    /\ last_attempt' = Attempt(elapsed, "other")
    /\ IF lock_policy.fail = "AfterDurationWithBackoff"
          /\ elapsed < lock_policy.time
          THEN opc' = "wait" /\ result' = result
          ELSE opc' = "returned" /\ result' = FromTame("PermanentlyLocked")
    /\ UNCHANGED <<lock, op, lock_timeout, lock_policy, elapsed, freed>>
    /\ Closed
    /\ UNCHANGED refreshes

\* RemoteGitIndex::with_options fails otherwise than by a held lock (the
\* repository cannot be opened or cloned, the lock file cannot be written):
\* `?` returns the error.  It fails before it has the lock, or with the
\* lock just taken, which goes with the index that is never returned.
WithOptionsFails(e, taken) ==
    /\ opc = "lock"
    /\ e # "PermanentlyLocked"
    /\ taken => lock = "free"
    /\ last_attempt' = IF taken THEN Attempt(elapsed, "free") ELSE last_attempt
    /\ result' = FromTame(e)
    /\ opc' = "returned"
    /\ UNCHANGED <<lock, op, lock_timeout, lock_policy, elapsed, freed>>
    /\ Closed
    /\ UNCHANGED refreshes

\* ... sleeps for the next backoff, cut to the time that remains
Wait(t) ==
    /\ opc = "wait"
    /\ t >= 1
    /\ elapsed + t <= lock_policy.time
    /\ elapsed' = elapsed + t
    /\ opc' = "lock"
    /\ UNCHANGED <<lock, op, lock_timeout, lock_policy, last_attempt, freed,
                   result>>
    /\ Closed
    /\ UNCHANGED refreshes

\* fetch: rgi.fetch() succeeds
FetchDone ==
    /\ opc = "fetch"
    /\ result' = Ok("Git")
    /\ index' = "Git"
    /\ opc' = "returned"
    /\ UNCHANGED <<lock, op, lock_timeout, lock_policy, elapsed, last_attempt,
                   freed>>
    /\ UNCHANGED <<cache, pc, packages, package_names, dedup_packages, yanked,
                   origin, queries, answered, stable, previous, fallback,
                   cleanup>>
    /\ refreshes' = refreshes + 1

\* a fetch whose error return keeps the lock
FetchFailsKeepingLock(e) ==
    /\ opc = "fetch"
    /\ result' = FromTame(e)
    /\ lock' = lock
    /\ opc' = "returned"
    /\ UNCHANGED <<op, lock_timeout, lock_policy, elapsed, last_attempt, freed>>
    /\ Closed
    /\ refreshes' = refreshes + 1

\* fetch: rgi.fetch() fails with error e, a lock error of its own included:
\* `?` returns the error and drops rgi, and the lock with it
FetchFails(e) ==
    /\ opc = "fetch"
    /\ result' = FromTame(e)
    /\ lock' = "free"
    /\ opc' = "returned"
    /\ UNCHANGED <<op, lock_timeout, lock_policy, elapsed, last_attempt, freed>>
    /\ Closed
    /\ refreshes' = refreshes + 1

\* another process takes the lock, or releases it, while open / fetch runs
OtherLocks ==
    /\ opc \in {"combo", "lock", "wait"}
    /\ lock = "free"
    /\ lock' = "other"
    /\ UNCHANGED <<opc, op, lock_timeout, lock_policy, elapsed, last_attempt,
                   freed, result>>
    /\ Closed
    /\ UNCHANGED refreshes

OtherUnlocks ==
    /\ opc \in {"combo", "lock", "wait"}
    /\ lock = "other"
    /\ lock' = "free"
    /\ freed' = (freed \/ opc = "wait")
    /\ UNCHANGED <<opc, op, lock_timeout, lock_policy, elapsed, last_attempt,
                   result>>
    /\ Closed
    /\ UNCHANGED refreshes

\* the CachedIndex is dropped: its RemoteGitIndex goes, and the lock it
\* holds with it
Drop ==
    /\ opc = "returned"
    /\ result.tag = "Ok"
    /\ pc = "idle"
    /\ lock' = IF lock = "self" THEN "free" ELSE lock
    /\ opc' = "dropped"
    /\ UNCHANGED <<op, lock_timeout, lock_policy, elapsed, last_attempt, freed,
                   result, refreshes>>
    /\ Closed

\* the process is interrupted (Ctrl+C) while open / fetch runs or while it
\* holds the CachedIndex: the lock is released if the build unwinds or has
\* gix's signal handler registered, and is left behind if not
Interrupt ==
    /\ opc \in {"combo", "lock", "wait", "fetch", "returned"}
    /\ lock' = IF lock = "self" /\ cleanup THEN "free" ELSE lock
    /\ opc' = "interrupted"
    /\ UNCHANGED <<op, lock_timeout, lock_policy, elapsed, last_attempt, freed,
                   result, refreshes>>
    /\ Closed

OpenNext ==
    \/ \E o \in {"open", "fetch"}, timeout \in 0..MaxTimeout : Call(o, timeout)
    \/ ComboFails
    \/ ComboGit
    \/ \E built \in BOOLEAN : ComboSparse(built)
    \/ ComboOther
    \/ LockTaken
    \/ LockHeld
    \/ \E e \in TameErrors, taken \in BOOLEAN : WithOptionsFails(e, taken)
    \/ \E t \in 1..MaxTimeout : Wait(t)
    \/ FetchDone
    \/ \E e \in TameErrors : FetchFails(e)
    \/ OtherLocks
    \/ OtherUnlocks
    \/ Drop
    \/ Interrupt

OpenSpec == OpenInit /\ [][OpenNext]_vars

\* C9: on a repository-based index with lock timeout zero, when open or
\* fetch tries the lock and another process holds it, it returns a
\* LockTimeout error in that very step, having waited no time and never
\* having held the lock.
C9_ZeroTimeoutFailsAtOnce ==
    /\ [][(/\ opc = "lock" /\ lock_timeout = 0 /\ lock = "other"
            /\ last_attempt' # last_attempt) =>
              /\ opc' = "returned"
              /\ result' = Err("LockTimeout")
              /\ lock' = "other"
              /\ elapsed' = 0]_vars
    /\ []((lock_timeout = 0 /\ result = Err("LockTimeout") /\ refreshes = 0) =>
             /\ last_attempt = Attempt(0, "other")
             /\ elapsed = 0
             /\ lock # "self"
             /\ index = "None")

C9_Witness ==
    /\ opc = "returned"
    /\ op = "fetch"
    /\ lock_timeout = 0
    /\ last_attempt = Attempt(0, "other")
    /\ result = Err("LockTimeout")
    /\ lock = "other"

\* C10, as claimed: with a positive lock timeout T, open and fetch take
\* the lock if it becomes free at any point within T (so they return
\* LockTimeout only if it never did, and then after waiting T), and never
\* wait longer than T.
C10_AcquiresIfEverFree ==
    /\ elapsed <= lock_timeout
    /\ (/\ opc = "returned" /\ lock_timeout > 0 /\ result = Err("LockTimeout")
        /\ refreshes = 0) =>
           /\ ~freed
           /\ elapsed = lock_timeout

\* C10, amended: with a positive lock timeout T, open and fetch take the
\* lock if one of their attempts finds it free, return LockTimeout if
\* their last attempt, made when T has elapsed, finds it held by another
\* process, and never wait longer than T.  With the lock taken they return
\* the CachedIndex holding it, or release it and return the error that
\* opening or refreshing the repository failed with (a LockTimeout only
\* from the refresh); an attempt that finds the lock held before T has
\* elapsed is followed by an error return only if opening fails otherwise.
C10_AcquiresIfFoundFree ==
    /\ elapsed <= lock_timeout
    /\ result = Err("LockTimeout") => lock # "self"
    /\ (result = Err("LockTimeout") /\ refreshes = 0) =>
           /\ last_attempt = Attempt(lock_timeout, "other")
           /\ elapsed = lock_timeout
    /\ (opc = "returned" /\ lock_timeout > 0 /\ last_attempt.made) =>
           /\ last_attempt.found = "free" =>
                  \/ result = Ok("Git") /\ lock = "self"
                  \/ /\ result.tag = "Err"
                     /\ lock = "free"
                     /\ result = Err("LockTimeout") => refreshes = 1
           /\ last_attempt.found = "other" =>
                  IF last_attempt.at = lock_timeout
                      THEN result = Err("LockTimeout") /\ elapsed = lock_timeout
                      ELSE result = Err("Registry")

C10_Witness ==
    /\ opc = "returned"
    /\ lock_timeout > 1
    /\ elapsed = 1
    /\ last_attempt = Attempt(1, "free")
    /\ result = Ok("Git")
    /\ lock = "self"

\* the process has left open / fetch without a CachedIndex, or has given
\* its CachedIndex up
Exited ==
    \/ opc \in {"dropped", "interrupted", "panicked"}
    \/ opc = "returned" /\ result.tag = "Err"

\* C11, as claimed: on every exit path (drop of the CachedIndex, error
\* return of fetch after the lock was taken, interruption of the process)
\* the lock is released: once the process has exited it does not hold it.
C11_ReleasedOnEveryExit ==
    Exited => lock # "self"

\* C11, amended: the lock is released on drop of the CachedIndex and on an
\* error return; on interruption it is released if the build cleans up
\* (panic = unwind, or gix's interrupt handler registered), and only an
\* interruption without cleanup leaves it behind.
C11_ReleasedUnlessKilled ==
    /\ (Exited /\ (opc = "interrupted" => cleanup)) => lock # "self"
    /\ (Exited /\ lock = "self") =>
           /\ opc = "interrupted"
           /\ ~cleanup
           /\ last_attempt = Attempt(elapsed, "free")

C11_Witness ==
    /\ opc = "interrupted"
    /\ cleanup
    /\ op = "fetch"
    /\ result = NoResult
    /\ last_attempt = Attempt(elapsed, "free")
    /\ refreshes = 0
    /\ lock = "free"

\* C12: open and fetch always end by returning a CachedIndex or an Error:
\* they never terminate abnormally, and what they return is Ok or Err.
C12_AlwaysReturnsAValue ==
    /\ opc # "panicked"
    /\ opc = "returned" => result.tag \in {"Ok", "Err"}

\* ------------------------------------------------------------- a whole life
\* One CachedIndex from its opening on: open or fetch with nobody else at
\* the lock, then find_yanked calls on the CachedIndex it returned.
LifeInit == OpenInit /\ lock = "free" /\ cleanup

\* open / fetch has returned a CachedIndex
Opened == opc = "returned" /\ result.tag = "Ok"

LifeNext ==
    \/ \E o \in {"open", "fetch"}, timeout \in {0, MaxTimeout} : Call(o, timeout)
    \/ ComboFails
    \/ ComboGit
    \/ \E built \in BOOLEAN : ComboSparse(built)
    \/ ComboOther
    \/ LockTaken
    \/ \E e \in TameErrors, taken \in BOOLEAN : WithOptionsFails(e, taken)
    \/ FetchDone
    \/ \E e \in TameErrors : FetchFails(e)
    \/ \E ps \in SeqsUpTo(Package, MaxLifePackages) :
           Opened /\ FindYanked(ps) /\ NoHistory
    \/ \E res \in KrateResults : PopulateKrate(res) /\ NoHistory
    \/ PopulateDone /\ NoHistory
    \/ \E e \in {RuntimeStartError, RuntimeAcquireError} :
           PopulateFails(e) /\ NoHistory
    \/ \E results \in BatchResults : PopulateBatch(results) /\ NoHistory
    \/ IsYankedCached /\ NoHistory
    \/ \E res \in KrateResults : IsYankedMiss(res) /\ NoHistory
    \/ Return /\ NoHistory

LifeSpec == LifeInit /\ [][LifeNext]_vars

\* the requests of the call in progress that go to the network: the batch
\* request of the remote sparse index (krate reads the local repository
\* or the local cache)
NetworkQueries == {i \in DOMAIN queries : queries[i].op = "krates_blocking"}

\* C13: the index variant is fixed by the opening operation and the kind of
\* index found, and never changes afterwards: open gives Git without a
\* network refresh or SparseCached, fetch gives Git after exactly one
\* network refresh or SparseRemote; and find_yanked on a CachedIndex made
\* by open sends no network request.
C13_VariantFixedByOpening ==
    /\ [][index # "None" => index' = index]_vars
    /\ [][Opened => (Opened' /\ result' = result /\ refreshes' = refreshes)]_vars
    /\ [](index # "None" <=> Opened)
    /\ [](Opened =>
             /\ index = result.index
             /\ op = "open" =>
                    /\ index \in {"Git", "SparseCached"}
                    /\ refreshes = 0
                    /\ NetworkQueries = {}
             /\ op = "fetch" =>
                    /\ index \in {"Git", "SparseRemote"}
                    /\ refreshes = IF index = "Git" THEN 1 ELSE 0)
    /\ [](pc # "idle" => Opened)

C13_Witness ==
    /\ Opened
    /\ op = "open"
    /\ index = "SparseCached"
    /\ Returning
    /\ cache # EmptyCache
    /\ queries # <<>>
    /\ NetworkQueries = {}

\* one step of the is_yanked loop on a name without cache entry: exactly
\* one krate() request, for that name, and its result stored
MissIsOneKrateCall ==
    LET n == Head(dedup_packages).name
    IN /\ Len(queries') = Len(queries) + 1
       /\ SubSeq(queries', 1, Len(queries)) = queries
       /\ queries'[Len(queries')].op = "krate"
       /\ queries'[Len(queries')].name = n
       /\ DOMAIN cache' = DOMAIN cache \cup {n}
       /\ cache'[n] = queries'[Len(queries')].outcome
       /\ \A m \in DOMAIN cache : cache'[m] = cache[m]

\* C16: a step of the is_yanked loop on a name without cache entry makes
\* exactly one krate() request (never the batch request) and stores its
\* result; every later step on a package of that name, in this call or in
\* a later one, is answered from the entry so stored, with no request.
C16_FallbackEntryAnswersLater ==
    [][(pc = "is_yanked" /\ dedup_packages # <<>>) =>
          LET n == Head(dedup_packages).name
          IN IF n \notin DOMAIN cache THEN MissIsOneKrateCall
             ELSE n \in DOMAIN fallback =>
                      /\ fallback[n]
                      /\ cache' = cache
                      /\ queries' = queries]_vars

\* the cache holds an error for name n
ErrorStored(n) == n \in DOMAIN cache /\ cache[n].tag = "Err"

\* C17: once the cache holds an error for a name, no step asks the backend
\* for that name again, and every step of the is_yanked loop on a package
\* of that name reports a Registry error that carries the stored cause.
C17_StoredErrorIsFinal ==
    [][/\ \A i \in DOMAIN queries' :
              i > Len(queries) => ~ErrorStored(queries'[i].name)
       /\ (/\ pc = "is_yanked" /\ dedup_packages # <<>>
           /\ ErrorStored(Head(dedup_packages).name)) =>
              /\ Len(yanked') = Len(yanked) + 1
              /\ yanked'[Len(yanked')].tag = "Err"
              /\ yanked'[Len(yanked')].error.kind = "Registry"
              /\ yanked'[Len(yanked')].error.err =
                     cache[Head(dedup_packages).name].err]_vars

\* the version-to-yanked map of a crate's metadata: each version listed,
\* with the flag of its last entry
IsYankMapOf(map, vs) ==
    /\ DOMAIN map = {vs[i].version : i \in DOMAIN vs}
    /\ \A i \in DOMAIN vs :
           (\A j \in DOMAIN vs : j > i => vs[j].version # vs[i].version) =>
               map[vs[i].version] = vs[i].yanked

\* the names the next step may call insert for
Insertable ==
    CASE pc = "populate_cache" -> Range(package_names)
      [] pc = "is_yanked" /\ dedup_packages # <<>> ->
             {Head(dedup_packages).name} \ DOMAIN cache
      [] OTHER -> {}

\* C18: whatever the cache holds and whatever the result is, an insert
\* (name, result) the program can make leaves the other names' entries
\* alone and makes the entry of name the one that result alone determines
\* (the version-to-yanked map of the metadata, not found, or the error):
\* an entry the name had before is replaced, none of it kept.
C18_InsertReplaces ==
    \A n \in Insertable, res \in KrateResults :
        LET c == Insert(cache, n, res)
        IN /\ DOMAIN c = DOMAIN cache \cup {n}
           /\ \A m \in DOMAIN cache \ {n} : c[m] = cache[m]
           /\ res.tag = "Err" => c[n] = [tag |-> "Err", err |-> res.err]
           /\ res.tag = "None" => c[n] = [tag |-> "None"]
           /\ res.tag = "Some" =>
                  /\ c[n].tag = "Some"
                  /\ IsYankMapOf(c[n].map, res.versions)

\* a populate_cache insert has replaced the entry is_yanked had stored for
\* a name by another one
C18_Witness ==
    /\ pc = "is_yanked"
    /\ ~PopulateFailed
    /\ \E i \in DOMAIN queries :
           /\ queries[i].name \in DOMAIN fallback
           /\ ~fallback[queries[i].name]
           /\ queries[i].outcome.tag = "Some"
           /\ cache[queries[i].name] = queries[i].outcome

\* C19: the cache is empty when the CachedIndex is created, and no step of
\* any find_yanked call, failing or not, removes a name from it.
C19_CachedNamesOnlyGrow ==
    /\ [](~Opened => cache = EmptyCache)
    /\ [][(~Opened /\ Opened') => cache' = EmptyCache]_vars
    /\ [][DOMAIN cache \subseteq DOMAIN cache']_vars

C19_Witness ==
    /\ Opened
    /\ Returning
    /\ PopulateFailed
    /\ DOMAIN cache = Names
    /\ NamesOf(packages) # Names

\* C20: find_yanked(P) touches the entries of the names of P only: every
\* step of the call leaves the entry (or the absence) of every other name
\* as it is, no step removes a name, nothing changes between calls, and
\* when the call returns every name of P has an entry; so the names cached
\* after the call are those cached before together with the names of P.
C20_OnlyNamesOfInputChange ==
    /\ [][(pc # "idle" /\ pc' # "idle") => packages' = packages]_vars
    /\ [][pc = "idle" => cache' = cache]_vars
    /\ [][pc # "idle" =>
              \A n \in Names \ NamesOf(packages) :
                  /\ n \in DOMAIN cache' <=> n \in DOMAIN cache
                  /\ n \in DOMAIN cache => cache'[n] = cache[n]]_vars
    /\ [][DOMAIN cache \subseteq DOMAIN cache']_vars
    /\ [](Returning => NamesOf(packages) \subseteq DOMAIN cache)

C20_Witness ==
    /\ Returning
    /\ packages # <<>>
    /\ queries # <<>>
    /\ DOMAIN cache = Names
    /\ NamesOf(packages) # Names

====
